---- MODULE Spec2Model ----
(***************************************************************************)
(* PPP encapsulation support of VPP (src/plugins/ppp/ppp.c): the protocol  *)
(* registry built by ppp_init, the header formatter and parser, and the    *)
(* rewrite builder.                                                        *)
(*                                                                         *)
(* Conventions.  C vectors are 0-indexed; a vector is a TLA+ sequence and  *)
(* vec_elt_at_index (v, i) is v[i + 1].  A hash is a function whose domain *)
(* is its key set.  Text is a TLA+ string built with \o; parser input is a *)
(* sequence of one-character strings with a 0-based read index.            *)
(***************************************************************************)
EXTENDS Integers, Sequences, FiniteSets, TLC

VARIABLES
  pc,          \* position of ppp_init, then "done" (runtime)
  next_proto,  \* position in foreach_ppp_protocol while pc = "add_protocols"
  ppp_main,    \* the global ppp_main_t
  graph,       \* the vlib node graph: node name -> [index, format_buffer]
  input_nodes, \* ppp_init's locals ip4_input_node, ip6_input_node
  registered,  \* protocols ppp_register_input_protocol was called with
  endian,      \* the byte order of the host the code was built for
  op           \* the last codec / rewrite / registration call and its outcome

vars ==
  <<pc, next_proto, ppp_main, graph, input_nodes, registered, endian, op>>

---------------------------------------------------------------------------
(* Bounds of the model. *)

\* max_header_bytes ranges over 0..MaxHeaderBytes.
MaxHeaderBytes == 5

\* The registry harness (SpecRegistry) makes at most MaxAddCalls calls.
MaxAddCalls == 3

---------------------------------------------------------------------------
(* Program constants. *)

\* ~0 as stored in node_index / next_index.
NoIndex == -1

\* sizeof (ppp_header_t): address, control, 2-byte protocol.
HeaderSize == 4

PPP_PROTOCOL_padding == 1
PPP_PROTOCOL_ip4 == 33
PPP_PROTOCOL_ip6 == 87
PPP_PROTOCOL_mpls_unicast == 641

\* foreach_ppp_protocol, in table order: the entries of the table the codec
\* and the rewrite builder name, and its first entry.
foreach_ppp_protocol ==
  << [protocol |-> PPP_PROTOCOL_padding,      name |-> "padding"],
     [protocol |-> PPP_PROTOCOL_ip4,          name |-> "ip4"],
     [protocol |-> PPP_PROTOCOL_ip6,          name |-> "ip6"],
     [protocol |-> PPP_PROTOCOL_mpls_unicast, name |-> "mpls_unicast"] >>

\* The host's byte order: the code is built for either.
Endians == {"little", "big"}

---------------------------------------------------------------------------
(* vppinfra primitives used by the registry. *)

EmptyHash == <<>>

hash_set(h, k, v) ==
  [x \in (DOMAIN h) \cup {k} |-> IF x = k THEN v ELSE h[x]]

hash_has(h, k) == k \in DOMAIN h

vec_elt_at_index(v, i) == v[i + 1]

\* ppp_main after clib_memset (pm, 0, sizeof (pm[0])).
ZeroMain ==
  [protocol_infos |-> <<>>,
   protocol_info_by_protocol |-> EmptyHash,
   protocol_info_by_name |-> EmptyHash]

---------------------------------------------------------------------------
(* The registry. *)

\* add_protocol with node_index left at 0 instead of ~0.
add_protocol_handler_zero(pm, protocol, protocol_name) ==
  LET i == Len(pm.protocol_infos)
      pi == [name |-> protocol_name, protocol |-> protocol,
             next_index |-> 0, node_index |-> 0]
  IN [protocol_infos |-> Append(pm.protocol_infos, pi),
      protocol_info_by_protocol |->
        hash_set(pm.protocol_info_by_protocol, protocol, i),
      protocol_info_by_name |->
        hash_set(pm.protocol_info_by_name, protocol_name, i)]

\* add_protocol: append a record, handler unset, and set both hash entries.
\* There is no lookup before the append.
add_protocol(pm, protocol, protocol_name) ==
  LET i == Len(pm.protocol_infos)
      pi == [name |-> protocol_name, protocol |-> protocol,
             next_index |-> NoIndex, node_index |-> NoIndex]
  IN [protocol_infos |-> Append(pm.protocol_infos, pi),
      protocol_info_by_protocol |->
        hash_set(pm.protocol_info_by_protocol, protocol, i),
      protocol_info_by_name |->
        hash_set(pm.protocol_info_by_name, protocol_name, i)]

\* ppp_get_protocol_info: the record of a protocol, or none (NULL).
ppp_get_protocol_info(pm, protocol) ==
  IF hash_has(pm.protocol_info_by_protocol, protocol)
  THEN [found |-> TRUE,
        index |-> pm.protocol_info_by_protocol[protocol],
        pi |-> vec_elt_at_index(pm.protocol_infos,
                                pm.protocol_info_by_protocol[protocol])]
  ELSE [found |-> FALSE]

\* ppp_register_input_protocol: set the handler of the protocol's record;
\* no record is the UnknownProtocol failure and changes nothing.
ppp_register_input_protocol(pm, protocol, node_index) ==
  LET r == ppp_get_protocol_info(pm, protocol)
  IN IF ~r.found THEN pm
     ELSE [pm EXCEPT !.protocol_infos[r.index + 1] =
             [@ EXCEPT !.node_index = node_index,
                       !.next_index = node_index]]

---------------------------------------------------------------------------
(* The node graph ppp_init finds its input nodes in. *)

\* The graph as ppp_init expects it (of the three nodes only ip4-input has a
\* format_buffer), and one without ip6-input.
Graphs ==
  { [n \in {"ip4-input", "ip6-input", "mpls-input"} |->
       [index |-> CASE n = "ip4-input" -> 10
                    [] n = "ip6-input" -> 11
                    [] OTHER -> 12,
        format_buffer |-> (n = "ip4-input")]],
    [n \in {"ip4-input", "mpls-input"} |->
       [index |-> IF n = "ip4-input" THEN 10 ELSE 12,
        format_buffer |-> (n = "ip4-input")]] }

\* vlib_get_node_by_name: the node, or none (NULL).
vlib_get_node_by_name(g, name) ==
  IF name \in DOMAIN g THEN [found |-> TRUE, node |-> g[name]]
  ELSE [found |-> FALSE]

\* vlib_get_node: the node of an index (an index of no node is not looked up).
vlib_get_node(g, index) ==
  CHOOSE nd \in {g[n] : n \in DOMAIN g} : nd.index = index

NoOp == [kind |-> "none"]

---------------------------------------------------------------------------
(* Byte order. *)

bswap16(x) == (x % 256) * 256 + (x \div 256)

clib_net_to_host_u16(e, x) == IF e = "little" THEN bswap16(x) ELSE x

clib_host_to_net_u16(e, x) == IF e = "little" THEN bswap16(x) ELSE x

\* A u16 field as the host loads it from two consecutive bytes of memory.
load_u16(e, b0, b1) == IF e = "little" THEN b0 + 256 * b1 ELSE 256 * b0 + b1

\* The two bytes the host stores a u16 as, lowest address first.
store_u16(e, x) ==
  IF e = "little" THEN <<x % 256, x \div 256>> ELSE <<x \div 256, x % 256>>

---------------------------------------------------------------------------
(* format: the text primitives. *)

HexDigits ==
  <<"0", "1", "2", "3", "4", "5", "6", "7",
    "8", "9", "a", "b", "c", "d", "e", "f">>

RECURSIVE format_hex(_)
\* %x: lowercase hexadecimal, no leading zeros.
format_hex(v) ==
  IF v < 16 THEN HexDigits[v + 1]
  ELSE format_hex(v \div 16) \o HexDigits[(v % 16) + 1]

RECURSIVE zero_pad(_, _)
zero_pad(text, width) ==
  IF Len(text) >= width THEN text ELSE zero_pad("0" \o text, width)

\* %0<width>x.
format_hex_0(v, width) == zero_pad(format_hex(v), width)

RECURSIVE format_white_space(_)
format_white_space(n) == IF n = 0 THEN "" ELSE " " \o format_white_space(n - 1)

\* format_get_indent: the column the text stands at (the texts handed in
\* hold no line break).
format_get_indent(s) == Len(s)

\* A node's format_buffer on n_bytes of payload: foreign text.
node_format_buffer(node, n_bytes) ==
  "[node " \o ToString(node.index) \o ": " \o ToString(n_bytes) \o " bytes]"

---------------------------------------------------------------------------
(* The header: 4 bytes of memory, address, control, protocol (2 bytes). *)

h_address(h) == h[1]
h_control(h) == h[2]
h_protocol(e, h) == load_u16(e, h[3], h[4])

\* format_ppp_protocol with %x in place of %04x.
format_ppp_protocol_unpadded(pm, p) ==
  LET r == ppp_get_protocol_info(pm, p)
  IN IF r.found THEN r.pi.name ELSE "0x" \o format_hex(p)

\* format_ppp_protocol: the registered name, or 0x and four hex digits.
format_ppp_protocol(pm, p) ==
  LET r == ppp_get_protocol_info(pm, p)
  IN IF r.found THEN r.pi.name ELSE "0x" \o format_hex_0(p, 4)

\* Lines 85-91: the handler node's rendering of the payload.  A protocol
\* without a record, or a record without a handler, has no node to ask.
format_payload(pm, g, s, p, indent, n_bytes) ==
  LET r == ppp_get_protocol_info(pm, p)
  IN IF r.found /\ r.pi.node_index # NoIndex
        /\ vlib_get_node(g, r.pi.node_index).format_buffer
     THEN s \o "\n" \o format_white_space(indent)
            \o node_format_buffer(vlib_get_node(g, r.pi.node_index), n_bytes)
     ELSE s

\* format_ppp_header_with_length with >= in the truncation test.
format_with_length_ge(pm, g, e, s, h, max_header_bytes, early) ==
  LET p == clib_net_to_host_u16(e, h_protocol(e, h))
      header_bytes == HeaderSize
  IN IF max_header_bytes # 0 /\ header_bytes >= max_header_bytes
     THEN [s |-> s \o "ppp header truncated",
           reads |-> IF early THEN {2, 3} ELSE {}]
     ELSE
       LET indent == format_get_indent(s)
           s1 == s \o "PPP " \o format_ppp_protocol(pm, p)
           s2 == IF h_address(h) # 255
                 THEN s1 \o ", address 0x" \o format_hex_0(h_address(h), 2)
                 ELSE s1
           s3 == IF h_control(h) # 3
                 THEN s2 \o ", control 0x" \o format_hex_0(h_control(h), 2)
                 ELSE s2
       IN [s |-> s3, reads |-> {0, 1, 2, 3}]

\* format_ppp_header_with_length.  Line 67 loads h->protocol (offsets 2, 3)
\* above the truncation test of line 71; on the truncated path the value is
\* dead, so a build performs the load as written (early) or drops it.  The
\* test of line 83 repeats that of line 71, which has returned.
format_ppp_header_with_length(pm, g, e, s, h, max_header_bytes, early) ==
  LET p == clib_net_to_host_u16(e, h_protocol(e, h))
      header_bytes == HeaderSize
  IN IF max_header_bytes # 0 /\ header_bytes > max_header_bytes
     THEN [s |-> s \o "ppp header truncated",
           reads |-> IF early THEN {2, 3} ELSE {}]
     ELSE
       LET indent == format_get_indent(s)
           s1 == s \o "PPP " \o format_ppp_protocol(pm, p)
           s2 == IF h_address(h) # 255
                 THEN s1 \o ", address 0x" \o format_hex_0(h_address(h), 2)
                 ELSE s1
           s3 == IF h_control(h) # 3
                 THEN s2 \o ", control 0x" \o format_hex_0(h_control(h), 2)
                 ELSE s2
       IN IF max_header_bytes # 0 /\ header_bytes > max_header_bytes
          THEN [s |-> format_payload(pm, g, s3, p, indent,
                                     max_header_bytes - header_bytes),
                reads |-> {0, 1, 2, 3}
                            \cup (header_bytes .. max_header_bytes - 1)]
          ELSE [s |-> s3, reads |-> {0, 1, 2, 3}]

\* format_ppp_header: no bound is given.
format_ppp_header(pm, g, e, s, h) ==
  format_ppp_header_with_length(pm, g, e, s, h, 0, TRUE)

---------------------------------------------------------------------------
(* Inputs of the formatter. *)

\* h->protocol in network order: ip4, mpls_unicast, ip4's bytes swapped
\* (0x2100, not registered) and 0x0abc (not registered).
HeaderProtocols == {<<0, 33>>, <<2, 129>>, <<33, 0>>, <<10, 188>>}

Headers ==
  { <<a, c>> \o pr : a \in {255, 126}, c \in {3, 11}, pr \in HeaderProtocols }

\* The text the caller has already formatted.
Prefixes == {"", "00:01 "}

FormatHeaderWithLength ==
  /\ pc = "done"
  /\ \E h \in Headers, m \in 0 .. MaxHeaderBytes, s \in Prefixes,
        early \in BOOLEAN :
       /\ (m = 0 \/ m >= HeaderSize) => early
       /\ LET r == format_ppp_header_with_length(ppp_main, graph, endian,
                                                 s, h, m, early)
          IN op' = [kind |-> "format", h |-> h, max_header_bytes |-> m,
                    s0 |-> s, s |-> r.s, reads |-> r.reads]
  /\ UNCHANGED <<pc, next_proto, ppp_main, graph, input_nodes, registered,
                 endian>>

FormatHeader ==
  /\ pc = "done"
  /\ \E h \in Headers, s \in Prefixes :
       LET r == format_ppp_header(ppp_main, graph, endian, s, h)
       IN op' = [kind |-> "format_ppp_header", h |-> h,
                 max_header_bytes |-> 0, s0 |-> s, s |-> r.s,
                 reads |-> r.reads]
  /\ UNCHANGED <<pc, next_proto, ppp_main, graph, input_nodes, registered,
                 endian>>

---------------------------------------------------------------------------
(* unformat: the input primitives.  An input is [buffer, index]: a sequence *)
(* of characters and the 0-based index of the next one.  A failed unformat  *)
(* or unformat_user puts the index back where it was.                       *)

Alphabet36 ==
  <<"0", "1", "2", "3", "4", "5", "6", "7", "8", "9",
    "a", "b", "c", "d", "e", "f", "g", "h", "i", "j", "k", "l", "m",
    "n", "o", "p", "q", "r", "s", "t", "u", "v", "w", "x", "y", "z">>

is_alnum(c) == \E k \in 1 .. Len(Alphabet36) : Alphabet36[k] = c

\* The digit a character stands for: 0-9, then a-z from 10.
digit_value(c) == (CHOOSE k \in 1 .. Len(Alphabet36) : Alphabet36[k] = c) - 1

RECURSIVE scan_integer(_, _, _, _, _, _, _)
\* unformat_integer's loop: an optional sign, then digits of the base; the
\* first other character is put back.
scan_integer(buffer, index, base, value, n_digits, n_input, sign) ==
  IF index >= Len(buffer)
  THEN [value |-> value, n_digits |-> n_digits, sign |-> sign,
        index |-> index]
  ELSE
    LET c == buffer[index + 1]
        put_input_done == [value |-> value, n_digits |-> n_digits,
                           sign |-> sign, index |-> index]
    IN CASE c = "-" ->
              IF n_input = 0
              THEN scan_integer(buffer, index + 1, base, value, n_digits,
                                n_input + 1, TRUE)
              ELSE put_input_done
         [] c = "+" ->
              IF n_input = 0
              THEN scan_integer(buffer, index + 1, base, value, n_digits,
                                n_input + 1, FALSE)
              ELSE put_input_done
         [] is_alnum(c) /\ c # "-" /\ c # "+" ->
              IF digit_value(c) >= base
              THEN put_input_done
              ELSE scan_integer(buffer, index + 1, base,
                                base * value + digit_value(c),
                                n_digits + 1, n_input + 1, sign)
         [] OTHER -> put_input_done

\* unformat_integer: %x (base 16) and %d (base 10) into an int.  The
\* literals of the model are short enough for the int to hold them.
unformat_integer(input, base) ==
  LET r == scan_integer(input.buffer, input.index, base, 0, 0, 0, FALSE)
  IN IF r.n_digits > 0
     THEN [ok |-> TRUE, value |-> IF r.sign THEN 0 - r.value ELSE r.value,
           input |-> [input EXCEPT !.index = r.index]]
     ELSE [ok |-> FALSE, value |-> 0, input |-> input]

\* unformat (input, "0x%x", &p).
unformat_0x_hex(input) ==
  LET b == input.buffer
      i == input.index
  IN IF i + 2 <= Len(b) /\ b[i + 1] = "0" /\ b[i + 2] = "x"
     THEN LET r == unformat_integer([input EXCEPT !.index = i + 2], 16)
          IN IF r.ok THEN r ELSE [ok |-> FALSE, value |-> 0, input |-> input]
     ELSE [ok |-> FALSE, value |-> 0, input |-> input]

\* unformat (input, "%d", &p).
unformat_decimal(input) == unformat_integer(input, 10)

RECURSIVE token_end(_, _)
token_end(buffer, index) ==
  IF index < Len(buffer)
     /\ (is_alnum(buffer[index + 1]) \/ buffer[index + 1] = "_")
  THEN token_end(buffer, index + 1)
  ELSE index

RECURSIVE text_of(_, _, _)
\* The characters buffer[from .. to - 1] (0-based) as one text.
text_of(buffer, from, to) ==
  IF from >= to THEN "" ELSE buffer[from + 1] \o text_of(buffer, from + 1, to)

\* unformat_vlib_number_by_name: a token of a-zA-Z0-9_, looked up in hash.
unformat_vlib_number_by_name(input, hash) ==
  LET e == token_end(input.buffer, input.index)
      token == text_of(input.buffer, input.index, e)
  IN IF e > input.index /\ hash_has(hash, token)
     THEN [ok |-> TRUE, value |-> hash[token],
           input |-> [input EXCEPT !.index = e]]
     ELSE [ok |-> FALSE, value |-> 0, input |-> input]

\* unformat_user (and %U): a failed parse function's input is put back.
unformat_user(input, r) ==
  IF r.ret = 1 THEN r ELSE [r EXCEPT !.input = input]

---------------------------------------------------------------------------
(* The parser. *)

\* unformat_ppp_protocol_host_byte_order: 0x%x, else %d, into int p; p is
\* refused from 1 << 16 up and otherwise stored into the u16 result; else a
\* registered name.
unformat_ppp_protocol_host_byte_order(pm, input, result) ==
  LET hex == unformat_0x_hex(input)
      num == IF hex.ok THEN hex ELSE unformat_decimal(input)
  IN IF num.ok
     THEN IF num.value >= 65536
          THEN [ret |-> 0, input |-> num.input, result |-> result]
          ELSE [ret |-> 1, input |-> num.input,
                result |-> num.value % 65536]
     ELSE
       LET named == unformat_vlib_number_by_name(input,
                                                 pm.protocol_info_by_name)
       IN IF named.ok
          THEN [ret |-> 1, input |-> named.input,
                result |-> vec_elt_at_index(pm.protocol_infos,
                                            named.value).protocol]
          ELSE [ret |-> 0, input |-> input, result |-> result]

\* unformat_ppp_protocol_net_byte_order.
unformat_ppp_protocol_net_byte_order(pm, e, input, result) ==
  LET r == unformat_user(input,
             unformat_ppp_protocol_host_byte_order(pm, input, result))
  IN IF r.ret = 0 THEN r
     ELSE [r EXCEPT !.result = clib_host_to_net_u16(e, r.result)]

\* unformat_ppp_header with the protocol stored in host order.
unformat_ppp_header_host_order(pm, e, input, result) ==
  LET r == unformat_user(input,
             unformat_ppp_protocol_host_byte_order(pm, input, 0))
  IN IF r.ret = 0
     THEN [ret |-> 0, input |-> r.input, result |-> result, p |-> 0]
     ELSE [ret |-> 1, input |-> r.input,
           result |-> result \o <<255, 3>> \o store_u16(e, r.result),
           p |-> r.result]

\* unformat_ppp_header: the protocol, then FF 03 and the protocol in
\* network order appended to the caller's vector.
unformat_ppp_header(pm, e, input, result) ==
  LET r == unformat_user(input,
             unformat_ppp_protocol_host_byte_order(pm, input, 0))
  IN IF r.ret = 0
     THEN [ret |-> 0, input |-> r.input, result |-> result, p |-> 0]
     ELSE [ret |-> 1, input |-> r.input,
           result |-> result \o <<255, 3>>
                        \o store_u16(e, clib_host_to_net_u16(e, r.result)),
           p |-> r.result]

---------------------------------------------------------------------------
(* Inputs of the parser. *)

NumericTexts ==
  { <<"0", "x", "2", "1">>, <<"3", "3">>, <<"0", "x", "f", "f", "f", "f">>,
    <<"6", "5", "5", "3", "5">>, <<"6", "5", "5", "3", "6">>,
    <<"0", "x", "1", "0", "0", "0", "0">>, <<"-", "1">>,
    <<"-", "6", "5", "5", "3", "5">>, <<"6", "4", "1", " ", "x">> }

NameTexts ==
  { <<"i", "p", "4">>, <<"i", "p", "6">>,
    <<"m", "p", "l", "s", "_", "u", "n", "i", "c", "a", "s", "t">>,
    <<"p", "p", "p">>, <<>> }

Texts == NumericTexts \cup NameTexts

\* What the caller's u16 holds before the call.
ResultsBefore == {48879}

\* What the caller's vector holds before the call.
Vectors == {<<>>, <<170, 85>>}

UnformatProtocolHost ==
  /\ pc = "done"
  /\ \E text \in Texts, before \in ResultsBefore :
       LET input == [buffer |-> text, index |-> 0]
           r == unformat_user(input,
                  unformat_ppp_protocol_host_byte_order(ppp_main, input,
                                                        before))
       IN op' = [kind |-> "unformat_protocol", text |-> text,
                 ret |-> r.ret, index |-> r.input.index,
                 result0 |-> before, result |-> r.result]
  /\ UNCHANGED <<pc, next_proto, ppp_main, graph, input_nodes, registered,
                 endian>>

UnformatProtocolNet ==
  /\ pc = "done"
  /\ \E text \in Texts, before \in ResultsBefore :
       LET input == [buffer |-> text, index |-> 0]
           r == unformat_user(input,
                  unformat_ppp_protocol_net_byte_order(ppp_main, endian,
                                                       input, before))
       IN op' = [kind |-> "unformat_protocol_net", text |-> text,
                 ret |-> r.ret, index |-> r.input.index,
                 result0 |-> before, result |-> r.result]
  /\ UNCHANGED <<pc, next_proto, ppp_main, graph, input_nodes, registered,
                 endian>>

UnformatHeader ==
  /\ pc = "done"
  /\ \E text \in Texts, v \in Vectors :
       LET input == [buffer |-> text, index |-> 0]
           r == unformat_ppp_header(ppp_main, endian, input, v)
       IN op' = [kind |-> "unformat_header", text |-> text,
                 ret |-> r.ret, index |-> r.input.index,
                 result0 |-> v, result |-> r.result, p |-> r.p]
  /\ UNCHANGED <<pc, next_proto, ppp_main, graph, input_nodes, registered,
                 endian>>

---------------------------------------------------------------------------
(* The rewrite builder. *)

LinkTypes == {"IP4", "IP6", "MPLS", "ETHERNET", "ARP", "NSH"}

\* ppp_build_rewrite without the MPLS case.
ppp_build_rewrite_no_mpls(e, link_type) ==
  IF link_type \notin {"IP4", "IP6"}
  THEN [null |-> TRUE, rewrite |-> <<>>]
  ELSE
    LET protocol == IF link_type = "IP4" THEN PPP_PROTOCOL_ip4
                    ELSE PPP_PROTOCOL_ip6
    IN [null |-> FALSE,
        rewrite |-> <<255, 3>>
                      \o store_u16(e, clib_host_to_net_u16(e, protocol))]

\* ppp_build_rewrite: NULL for a link type the switch does not name, else a
\* 4-byte vector FF 03 and the protocol in network order.
ppp_build_rewrite(e, link_type) ==
  IF link_type \notin {"IP4", "IP6", "MPLS"}
  THEN [null |-> TRUE, rewrite |-> <<>>]
  ELSE
    LET protocol == CASE link_type = "IP4" -> PPP_PROTOCOL_ip4
                      [] link_type = "IP6" -> PPP_PROTOCOL_ip6
                      [] link_type = "MPLS" -> PPP_PROTOCOL_mpls_unicast
    IN [null |-> FALSE,
        rewrite |-> <<255, 3>>
                      \o store_u16(e, clib_host_to_net_u16(e, protocol))]

\* The interface layer asks for a rewrite; the function reads no registry
\* state, and is bound to the hardware class at load time.
BuildRewrite ==
  /\ \E link_type \in LinkTypes :
       LET r == ppp_build_rewrite(endian, link_type)
       IN op' = [kind |-> "build_rewrite", link_type |-> link_type,
                 null |-> r.null, rewrite |-> r.rewrite]
  /\ UNCHANGED <<pc, next_proto, ppp_main, graph, input_nodes, registered,
                 endian>>

---------------------------------------------------------------------------
(* Handler registration by another module, after startup. *)

\* The protocols other modules register for: a built-in one and one the
\* table does not hold.
LateProtocols == {PPP_PROTOCOL_mpls_unicast, 2748}

RegisterInputProtocol ==
  /\ pc = "done"
  /\ \E protocol \in LateProtocols :
       /\ "mpls-input" \in DOMAIN graph
       /\ ppp_main' = ppp_register_input_protocol(ppp_main, protocol,
                                                  graph["mpls-input"].index)
       /\ registered' = registered \cup {protocol}
       /\ op' = [kind |-> "register", protocol |-> protocol,
                 found |-> ppp_get_protocol_info(ppp_main, protocol).found]
  /\ UNCHANGED <<pc, next_proto, graph, input_nodes, endian>>

---------------------------------------------------------------------------
(* ppp_init. *)

Init ==
  /\ pc = "start"
  /\ next_proto = 1
  /\ ppp_main = ZeroMain
  /\ graph \in Graphs
  /\ input_nodes = <<>>
  /\ registered = {}
  /\ endian \in Endians
  /\ op = NoOp

\* Lines 232-242: reset ppp_main, then the init functions ppp depends on;
\* an error of one of them is returned.
InitReset ==
  /\ pc = "start"
  /\ ppp_main' = ZeroMain
  /\ \E error \in BOOLEAN : pc' = IF error THEN "error" ELSE "hash_create"
  /\ UNCHANGED <<next_proto, graph, input_nodes, registered, endian, op>>

\* Lines 244-245: both hashes are created, empty.
InitHashCreate ==
  /\ pc = "hash_create"
  /\ ppp_main' = [ppp_main EXCEPT !.protocol_info_by_name = EmptyHash,
                                  !.protocol_info_by_protocol = EmptyHash]
  /\ pc' = "add_protocols"
  /\ UNCHANGED <<next_proto, graph, input_nodes, registered, endian, op>>

\* Lines 247-249: one add_protocol per entry of foreach_ppp_protocol.
InitAddProtocol ==
  /\ pc = "add_protocols"
  /\ next_proto <= Len(foreach_ppp_protocol)
  /\ ppp_main' = add_protocol(ppp_main,
                              foreach_ppp_protocol[next_proto].protocol,
                              foreach_ppp_protocol[next_proto].name)
  /\ next_proto' = next_proto + 1
  /\ pc' = IF next_proto = Len(foreach_ppp_protocol)
           THEN "get_nodes" ELSE "add_protocols"
  /\ UNCHANGED <<graph, input_nodes, registered, endian, op>>

\* Lines 251-254: both input nodes are looked up by name; a missing one
\* fails the ASSERT (or is dereferenced at line 256): startup dies.
InitGetNodes ==
  /\ pc = "get_nodes"
  /\ LET n4 == vlib_get_node_by_name(graph, "ip4-input")
         n6 == vlib_get_node_by_name(graph, "ip6-input")
     IN IF n4.found /\ n6.found
        THEN /\ input_nodes' = <<n4.node, n6.node>>
             /\ pc' = "register_ip4"
        ELSE /\ input_nodes' = input_nodes
             /\ pc' = "aborted"
  /\ UNCHANGED <<next_proto, ppp_main, graph, registered, endian, op>>

\* Line 256.
InitRegisterIp4 ==
  /\ pc = "register_ip4"
  /\ ppp_main' = ppp_register_input_protocol(ppp_main, PPP_PROTOCOL_ip4,
                                             input_nodes[1].index)
  /\ registered' = registered \cup {PPP_PROTOCOL_ip4}
  /\ pc' = "register_ip6"
  /\ UNCHANGED <<next_proto, graph, input_nodes, endian, op>>

\* Line 257.
InitRegisterIp6 ==
  /\ pc = "register_ip6"
  /\ ppp_main' = ppp_register_input_protocol(ppp_main, PPP_PROTOCOL_ip6,
                                             input_nodes[2].index)
  /\ registered' = registered \cup {PPP_PROTOCOL_ip6}
  /\ pc' = "input_init"
  /\ UNCHANGED <<next_proto, graph, input_nodes, endian, op>>

\* Line 259: ppp_input_init's result is ppp_init's.
InitInputInit ==
  /\ pc = "input_init"
  /\ \E error \in BOOLEAN : pc' = IF error THEN "error" ELSE "done"
  /\ UNCHANGED <<next_proto, ppp_main, graph, input_nodes, registered, endian, op>>

ppp_init ==
  \/ InitReset
  \/ InitHashCreate
  \/ InitAddProtocol
  \/ InitGetNodes
  \/ InitRegisterIp4
  \/ InitRegisterIp6
  \/ InitInputInit

Next ==
  \/ ppp_init
  \/ FormatHeaderWithLength
  \/ FormatHeader
  \/ UnformatProtocolHost
  \/ UnformatProtocolNet
  \/ UnformatHeader
  \/ BuildRewrite
  \/ RegisterInputProtocol

Spec == Init /\ [][Next]_vars

---------------------------------------------------------------------------
(* add_protocol on its own: any calls, in any order, on an empty registry. *)

AddProtocols == {PPP_PROTOCOL_ip4, PPP_PROTOCOL_ip6}
AddNames == {"ip4", "ip6"}

InitRegistry ==
  /\ pc = "add_protocol_calls"
  /\ next_proto = 1
  /\ ppp_main = ZeroMain
  /\ graph \in Graphs
  /\ input_nodes = <<>>
  /\ registered = {}
  /\ endian \in Endians
  /\ op = NoOp

AddProtocolCall ==
  /\ pc = "add_protocol_calls"
  /\ Len(ppp_main.protocol_infos) < MaxAddCalls
  /\ \E protocol \in AddProtocols, name \in AddNames :
       /\ ppp_main' = add_protocol(ppp_main, protocol, name)
       /\ op' = [kind |-> "add_protocol", protocol |-> protocol,
                 name |-> name, before |-> ppp_main]
  /\ UNCHANGED <<pc, next_proto, graph, input_nodes, registered, endian>>

NextRegistry == AddProtocolCall

SpecRegistry == InitRegistry /\ [][NextRegistry]_vars

---------------------------------------------------------------------------
(* What the claims are stated with. *)

IsFormat == op.kind \in {"format", "format_ppp_header"}

FullHeader == op.max_header_bytes = 0 \/ op.max_header_bytes >= HeaderSize

TruncatedText == op.s0 \o "ppp header truncated"

\* The protocol of a header, read as the wire defines it: high byte first.
WireProtocol(h) == 256 * h[3] + h[4]

\* The registered handler node of the header's protocol has a format_buffer.
HandlerFormats(h) ==
  LET r == ppp_get_protocol_info(ppp_main, WireProtocol(h))
  IN /\ r.found
     /\ r.pi.node_index # NoIndex
     /\ vlib_get_node(graph, r.pi.node_index).format_buffer

\* The expected text of each header of Headers, written out.
ExpectedProtocolText(h) ==
  CASE WireProtocol(h) = 33 -> "ip4"
    [] WireProtocol(h) = 641 -> "mpls_unicast"
    [] WireProtocol(h) = 8448 -> "0x2100"
    [] WireProtocol(h) = 2748 -> "0x0abc"

ExpectedAddressText(h) ==
  CASE h[1] = 255 -> ""
    [] h[1] = 126 -> ", address 0x7e"

ExpectedControlText(h) ==
  CASE h[2] = 3 -> ""
    [] h[2] = 11 -> ", control 0x0b"

ExpectedHeaderText ==
  op.s0 \o "PPP " \o ExpectedProtocolText(op.h)
        \o ExpectedAddressText(op.h) \o ExpectedControlText(op.h)

\* Every record is the target of both index entries of its own keys, and
\* every index entry points to a record with that key.
RegistryConsistent ==
  LET infos == ppp_main.protocol_infos
      by_protocol == ppp_main.protocol_info_by_protocol
      by_name == ppp_main.protocol_info_by_name
  IN /\ \A i \in 1 .. Len(infos) :
          /\ hash_has(by_protocol, infos[i].protocol)
          /\ by_protocol[infos[i].protocol] = i - 1
          /\ hash_has(by_name, infos[i].name)
          /\ by_name[infos[i].name] = i - 1
     /\ \A k \in DOMAIN by_protocol :
          /\ by_protocol[k] \in 0 .. Len(infos) - 1
          /\ infos[by_protocol[k] + 1].protocol = k
     /\ \A n \in DOMAIN by_name :
          /\ by_name[n] \in 0 .. Len(infos) - 1
          /\ infos[by_name[n] + 1].name = n

KeysUnique ==
  LET infos == ppp_main.protocol_infos
  IN \A i, j \in 1 .. Len(infos) :
       i # j => /\ infos[i].protocol # infos[j].protocol
                /\ infos[i].name # infos[j].name

---------------------------------------------------------------------------
(* The claims. *)

\* C1: format_ppp_header_with_length with max_bytes in 1..3 reads no header
\* byte at an offset >= max_bytes at any point of the call.
C1_NoReadBeyondBound ==
  (op.kind = "format" /\ op.max_header_bytes \in 1 .. HeaderSize - 1)
    => \A o \in op.reads : o < op.max_header_bytes

\* C2: with the full header and trailing bytes available and a registered
\* handler node that has a format_buffer, the handler's rendering of the
\* max_bytes - 4 trailing bytes is appended on a new line, indented to the
\* header's column; without a formatter nothing is appended.
C2_PayloadAppended ==
  (op.kind = "format" /\ op.max_header_bytes > HeaderSize)
    => op.s = IF HandlerFormats(op.h)
              THEN format_payload(ppp_main, graph, ExpectedHeaderText,
                                  WireProtocol(op.h), Len(op.s0),
                                  op.max_header_bytes - HeaderSize)
              ELSE ExpectedHeaderText

\* C3: a numeric literal whose value is outside 0..65535, negative decimal
\* values included, fails to parse: the caller's result is not written and
\* no input is consumed.
OutOfRangeLiterals ==
  { <<"6", "5", "5", "3", "6">>, <<"0", "x", "1", "0", "0", "0", "0">>,
    <<"-", "1">>, <<"-", "6", "5", "5", "3", "5">> }

C3_OutOfRangeRefused ==
  (op.kind = "unformat_protocol" /\ op.text \in OutOfRangeLiterals)
    => /\ op.ret = 0
       /\ op.result = op.result0
       /\ op.index = 0

\* C4: unformat_ppp_header is all-or-nothing on the caller's vector: on
\* success exactly FF 03 and the parsed protocol, high byte first, follow
\* the unchanged old contents; on failure the vector is unchanged; "ip4"
\* and "0x21" both append FF 03 00 21.
C4_HeaderAllOrNothing ==
  op.kind = "unformat_header"
    => /\ op.ret \in {0, 1}
       /\ op.ret = 1 =>
            op.result = op.result0
                          \o <<255, 3, op.p \div 256, op.p % 256>>
       /\ op.ret = 0 => op.result = op.result0
       /\ op.text \in {<<"i", "p", "4">>, <<"0", "x", "2", "1">>} =>
            /\ op.ret = 1
            /\ op.result = op.result0 \o <<255, 3, 0, 33>>
       /\ op.text \in {<<"p", "p", "p">>, <<>>, <<"6", "5", "5", "3", "6">>}
            => op.ret = 0

C4_Witness ==
  /\ op.kind = "unformat_header"
  /\ op.text = <<"i", "p", "4">>
  /\ op.result0 = <<170, 85>>
  /\ op.result = <<170, 85, 255, 3, 0, 33>>
  /\ endian = "little"

\* C5: ppp_build_rewrite depends on the link type alone: FF 03 and the
\* protocol of IP4, IP6 or MPLS in network order, in every registry state;
\* NULL, and no bytes, for every other link type.
C5_RewriteByFamily ==
  op.kind = "build_rewrite"
    => CASE op.link_type = "IP4" ->
              ~op.null /\ op.rewrite = <<255, 3, 0, 33>>
         [] op.link_type = "IP6" ->
              ~op.null /\ op.rewrite = <<255, 3, 0, 87>>
         [] op.link_type = "MPLS" ->
              ~op.null /\ op.rewrite = <<255, 3, 2, 129>>
         [] OTHER -> op.null /\ op.rewrite = <<>>

C5_Witness ==
  /\ op.kind = "build_rewrite"
  /\ op.link_type = "MPLS"
  /\ op.rewrite = <<255, 3, 2, 129>>
  /\ pc = "start"
  /\ endian = "little"

\* C6: after any sequence of add_protocol calls every record is the target
\* of the by-protocol and by-name entries of its own keys, and every entry
\* of either index points to a record with that key.
C6_IndexConsistency == RegistryConsistent

\* C7: add_protocol with a protocol or a name that is already present adds
\* no record and changes neither index, so protocols and names stay unique.
C7_DuplicateRefused ==
  /\ (/\ op.kind = "add_protocol"
      /\ \/ hash_has(op.before.protocol_info_by_protocol, op.protocol)
         \/ hash_has(op.before.protocol_info_by_name, op.name))
       => ppp_main = op.before
  /\ KeysUnique

\* C8: in ppp_init every built-in add_protocol is done before the first
\* ppp_register_input_protocol, add_protocol leaves the handler unset
\* (node_index = next_index = ~0), the ip4 and ip6 records exist when their
\* handlers are registered, and no record has a handler before a
\* registration call naming its protocol.
C8_StartupOrdering ==
  LET infos == ppp_main.protocol_infos
  IN /\ \A i \in 1 .. Len(infos) :
          infos[i].protocol \notin registered
            => /\ infos[i].node_index = NoIndex
               /\ infos[i].next_index = NoIndex
     /\ pc \in {"start", "hash_create", "add_protocols", "get_nodes"}
          => registered = {}
     /\ (registered # {} \/ pc \in {"register_ip4", "register_ip6"})
          => /\ Len(infos) = Len(foreach_ppp_protocol)
             /\ \A k \in 1 .. Len(foreach_ppp_protocol) :
                  /\ infos[k].protocol = foreach_ppp_protocol[k].protocol
                  /\ infos[k].name = foreach_ppp_protocol[k].name
             /\ ppp_get_protocol_info(ppp_main, PPP_PROTOCOL_ip4).found
             /\ ppp_get_protocol_info(ppp_main, PPP_PROTOCOL_ip6).found
     /\ PPP_PROTOCOL_ip4 \in registered
          => ppp_get_protocol_info(ppp_main,
                                   PPP_PROTOCOL_ip4).pi.node_index = 10
     /\ PPP_PROTOCOL_ip6 \in registered
          => ppp_get_protocol_info(ppp_main,
                                   PPP_PROTOCOL_ip6).pi.node_index = 11

C8_Witness ==
  /\ pc = "register_ip6"
  /\ registered = {PPP_PROTOCOL_ip4}
  /\ ppp_get_protocol_info(ppp_main, PPP_PROTOCOL_ip4).pi.node_index = 10
  /\ ppp_get_protocol_info(ppp_main, PPP_PROTOCOL_ip6).pi.node_index
       = NoIndex

\* C9: a fully available header renders as "PPP ", the registry name of the
\* protocol (looked up in host order) or 0x and four lowercase hex digits,
\* then ", address 0x.." iff address # 0xFF, then ", control 0x.." iff
\* control # 0x03.  Stated where no payload is due after the header text:
\* no trailing bytes, or no handler formatter.
C9_HeaderText ==
  (/\ IsFormat
   /\ FullHeader
   /\ op.max_header_bytes <= HeaderSize \/ ~HandlerFormats(op.h))
    => /\ op.s = ExpectedHeaderText
       /\ op.h = <<255, 3, 0, 33>> => op.s = op.s0 \o "PPP ip4"
       /\ op.h = <<126, 3, 0, 33>>
            => op.s = op.s0 \o "PPP ip4, address 0x7e"

C9_Witness ==
  /\ op.kind = "format"
  /\ op.max_header_bytes = HeaderSize
  /\ op.h = <<126, 11, 10, 188>>
  /\ op.s0 = ""
  /\ op.s = "PPP 0x0abc, address 0x7e, control 0x0b"
  /\ endian = "little"

\* C10: the truncation indication is the outcome iff max_bytes is nonzero
\* and less than 4, and then it is the only text appended; max_bytes = 0,
\* which is what format_ppp_header passes, is no bound.
C10_TruncatedIff ==
  IsFormat
    => /\ (op.s = TruncatedText)
            <=> (op.max_header_bytes \in 1 .. HeaderSize - 1)
       /\ op.kind = "format_ppp_header"
            => op.max_header_bytes = 0 /\ op.s = ExpectedHeaderText
       /\ op.max_header_bytes = 0 => op.s = ExpectedHeaderText

C10_Witness ==
  /\ op.kind = "format"
  /\ op.max_header_bytes = HeaderSize - 1
  /\ op.h = <<255, 3, 0, 33>>
  /\ op.s = op.s0 \o "ppp header truncated"

====
